---- MODULE Spec2Model ----
(***************************************************************************)
(* A model of pngbomb (src/src/main.rs): the ZeroReader payload source,    *)
(* the ChunkWriter chunk framer (begin / write / finish) over a seekable   *)
(* sink, write_chunk, and the render / run pipeline that emits a PNG.      *)
(*                                                                         *)
(* Control is modelled at the granularity of one call on the underlying    *)
(* sink (one seek or one write) per step, because each of them may fail    *)
(* or, for a write, accept only a prefix of the bytes offered.             *)
(***************************************************************************)
EXTENDS Integers, Sequences, FiniteSets, TLC

----------------------------------------------------------------------------
(* Bounds of the model.                                                    *)

\* Largest count a ZeroReader is created with in SpecZeroReader.
MaxCount == 3
\* Largest caller buffer handed to ZeroReader::read in SpecZeroReader.
MaxBuf == 3
\* Largest number of payload bytes a caller offers to one chunk in SpecChunk.
MaxPayload == 2
\* Largest number of bytes already in the sink, and largest start position,
\* when a chunk is begun in SpecChunk.
MaxPre == 1
\* How many times the sink may accept only a prefix of a write in one run.
MaxShort == 1
\* Largest number of compressed bytes the encoder emits in one run.
MaxZ == 2
\* Capacity of the BufReader around the ZeroReader (64 * 1024 in the code),
\* scaled down.
BufCap == 2
\* Size of render's block buffer (2 * 1024 * 1024 in the code), scaled down.
BlockCap == 2
\* Largest number of write calls on one chunk in SpecWide.
MaxWideWrites == 2

----------------------------------------------------------------------------
(* Bytes and 32-bit words.  A u32 is kept as its four bytes, most          *)
(* significant first, which is also its to_be_bytes() image.               *)

RECURSIVE XorBits(_, _, _)
\* x ^ y on the low n bits of two naturals.
XorBits(x, y, n) ==
    IF n = 0 THEN 0
    ELSE ((x + y) % 2) + 2 * XorBits(x \div 2, y \div 2, n - 1)

\* x ^ y for every pair of bytes.
XOR_TABLE == [x \in 0..255 |-> [y \in 0..255 |-> XorBits(x, y, 8)]]

XorByte(x, y) == XOR_TABLE[x][y]

Xor32(a, b) ==
    <<XorByte(a[1], b[1]), XorByte(a[2], b[2]), XorByte(a[3], b[3]),
      XorByte(a[4], b[4])>>

Not32(a) == <<255 - a[1], 255 - a[2], 255 - a[3], 255 - a[4]>>

Shr1(a) ==
    [i \in 1..4 |-> (a[i] \div 2) + (IF i > 1 THEN (a[i - 1] % 2) * 128 ELSE 0)]

Shr8(a) == <<0, a[1], a[2], a[3]>>

\* (n as u32).to_be_bytes() for a natural n (the cast keeps n mod 2^32).
to_be_bytes(n) ==
    <<(n \div 16777216) % 256, (n \div 65536) % 256, (n \div 256) % 256, n % 256>>

\* The natural a four-byte big-endian field holds, for fields below 2^31.
from_be_bytes(b) == ((b[1] * 256 + b[2]) * 256 + b[3]) * 256 + b[4]

Zeros(n) == [i \in 1..n |-> 0]

Min(a, b) == IF a < b THEN a ELSE b

Max(a, b) == IF a < b THEN b ELSE a

----------------------------------------------------------------------------
(* crc32::Digest::new(crc32::IEEE), Digest::write and Digest::sum32 of the *)
(* crc crate: a reflected, table-driven CRC-32.                            *)

\* crc32::IEEE = 0xEDB88320
IEEE == <<237, 184, 131, 32>>

RECURSIVE TableRounds(_, _)
TableRounds(v, k) ==
    IF k = 0 THEN v
    ELSE TableRounds(IF v[4] % 2 = 1 THEN Xor32(IEEE, Shr1(v)) ELSE Shr1(v), k - 1)

IEEE_TABLE == [i \in 0..255 |-> TableRounds(<<0, 0, 0, i>>, 8)]

RECURSIVE UpdateLoop(_, _, _)
UpdateLoop(value, bytes, i) ==
    IF i > Len(bytes) THEN value
    ELSE LET next == Xor32(IEEE_TABLE[XorByte(value[4], bytes[i])], Shr8(value))
         \* v is bound to the value of this round, computed once.
         IN  CHOOSE r \in {UpdateLoop(v, bytes, i + 1) : v \in {next}} : TRUE

\* The digest value before any write.
DigestNew == <<0, 0, 0, 0>>

\* Digest::write(bytes): value = update(value, table, bytes).
DigestWrite(value, bytes) == Not32(UpdateLoop(Not32(value), bytes, 1))

\* Digest::sum32().to_be_bytes()
Sum32Bytes(value) == value

\* The reference CRC-32 of a byte string, as four big-endian bytes.
Crc32(bytes) == Sum32Bytes(DigestWrite(DigestNew, bytes))

----------------------------------------------------------------------------
(* Program constants.                                                      *)

\* png::chunk::IHDR, IDAT, IEND
IHDR == <<73, 72, 68, 82>>
IDAT == <<73, 68, 65, 84>>
IEND == <<73, 69, 78, 68>>

\* The PNG signature render writes first.
SIGNATURE == <<137, 80, 78, 71, 13, 10, 26, 10>>

\* png::ColorType::Grayscale as u8, and png::BitDepth::One as u8.
Grayscale == 0
One == 1

\* ColorType::samples(): channels per pixel.
Samples(color_type) ==
    CASE color_type = 0 -> 1
      [] color_type = 2 -> 3
      [] color_type = 3 -> 1
      [] color_type = 4 -> 2
      [] color_type = 6 -> 4

\* A row length that leaves out the filter byte.
raw_row_length_no_filter(w, color_type, bit_depth) ==
    LET bits == w * Samples(color_type) * bit_depth
    IN  (bits \div 8) + (IF bits % 8 = 0 THEN 0 ELSE 1)

\* png::Info::raw_row_length(): the packed row bytes plus the filter byte.
raw_row_length(w, color_type, bit_depth) ==
    LET bits == w * Samples(color_type) * bit_depth
    IN  (bits \div 8) + (IF bits % 8 = 0 THEN 0 ELSE 1) + 1

\* Option<usize>
None == [some |-> FALSE, val |-> 0]
Some(n) == [some |-> TRUE, val |-> n]

\* len.unwrap_or(0)
unwrap_or_0(len) == IF len.some THEN len.val ELSE 0

\* errors::Error: the links of error_chain! and the message error of bail!.
NoError == [kind |-> "none", cause |-> "none"]
IoError(cause) == [kind |-> "IO", cause |-> cause]
MsgError == [kind |-> "Msg", cause |-> "wrote {} bytes, but expected {}"]
DocoptError == [kind |-> "Docopt", cause |-> "argv"]

\* The kinds of io::Error the sink may answer a call with.
ErrorKinds == {"Interrupted", "Other"}

\* Content of a buffer byte nobody has written yet.
Garbage == 170

----------------------------------------------------------------------------
(* ZeroReader.                                                             *)

\* ZeroReader::new(count)
ZeroReader_new(count) == [count |-> count, at |-> 0]

\* A loop test that stops one byte late.
ExhaustedOneLate(r) == r.at = r.count + 1

\* The loop test of ZeroReader::read: stop when the reader is exhausted.
Exhausted(r) == r.at = r.count

RECURSIVE read_loop(_, _, _, _)
\* for c in buf.iter_mut() { if at == count { break } *c = 0; num += 1; at += 1 }
read_loop(r, buf, i, num) ==
    IF i > Len(buf) \/ Exhausted(r)
    THEN [zr |-> r, buf |-> buf, num |-> num]
    ELSE read_loop([r EXCEPT !.at = @ + 1], [buf EXCEPT ![i] = 0], i + 1, num + 1)

\* ZeroReader::read(&mut self, buf) -> Ok(num)
ZeroReader_read(r, buf) == read_loop(r, buf, 1, 0)

----------------------------------------------------------------------------
(* The seekable sink: a byte string and a cursor.                          *)

\* The sink's bytes after `bytes` is written at position p (0-based); a gap
\* between the old end and p reads as zeros.
WriteAt(d, p, bytes) ==
    [i \in 1..Max(Len(d), p + Len(bytes)) |->
        IF i > p /\ i <= p + Len(bytes) THEN bytes[i - p]
        ELSE IF i <= Len(d) THEN d[i]
        ELSE 0]

----------------------------------------------------------------------------
(* ChunkWriter.                                                            *)

NoChunk == [state |-> "none", len |-> None, crc |-> DigestNew, start |-> 0]

\* ChunkWriter::begin: the length field written before the type.
BeginLenField(len) == to_be_bytes(unwrap_or_0(len))

\* ChunkWriter::begin: the digest after the type is hashed.
BeginCrc(typ) == DigestWrite(DigestNew, typ)

\* ChunkWriter::write: what is hashed after the sink took n of `bytes`.
WriteCrc(crc, bytes, n) == DigestWrite(crc, bytes)

\* A finish that allows for the length field only, not for the type.
FinishLenForgetsType(c, start) == c - start - 4

\* ChunkWriter::finish: the block size from the cursor before and after.
FinishLen(c, start) == c - start - 4 - 4

\* A check that catches only a chunk that came out too short.
LenMismatchShortOnly(len, hlen) == len < hlen

\* ChunkWriter::finish: the known-size check.
LenMismatch(len, hlen) == len # hlen

\* ChunkWriter::finish: the rewritten length field of a var-length chunk.
FinishLenField(len) == to_be_bytes(len)

\* ChunkWriter::finish: the trailing checksum field.
FinishCrcField(crc) == Sum32Bytes(crc)

----------------------------------------------------------------------------
(* write_all of std::io::Write: which errors of write() it retries.        *)

\* A write_all that goes round again after any error.
RetriedAlways(kind) == TRUE

Retried(kind) == kind = "Interrupted"

----------------------------------------------------------------------------
(* render and run.                                                         *)

\* The 13 bytes of the IHDR payload.
Hdr(w, h, bit_depth, color_type) ==
    to_be_bytes(w) \o to_be_bytes(h) \o <<bit_depth, color_type, 0, 0, 0>>

\* The number of bytes of image data to generate.
Ibytes(w, h, color_type, bit_depth) == raw_row_length(w, color_type, bit_depth) * h

Digits == <<"0", "1", "2", "3", "4", "5", "6", "7", "8", "9">>

DigitValue(ch) == CHOOSE d \in 0..9 : Digits[d + 1] = ch

IsDigit(ch) == \E d \in 1..10 : Digits[d] = ch

RECURSIVE DecimalValue(_, _)
DecimalValue(tok, acc) ==
    IF tok = <<>> THEN acc
    ELSE DecimalValue(Tail(tok), 10 * acc + DigitValue(Head(tok)))

\* Whether a command-line token deserializes as a usize flag.
ParsesAsUsize(tok) ==
    LET digits == IF tok # <<>> /\ Head(tok) = "+" THEN Tail(tok) ELSE tok
    IN  digits # <<>> /\ \A i \in 1..Len(digits) : IsDigit(digits[i])

ParseUsize(tok) ==
    DecimalValue(IF Head(tok) = "+" THEN Tail(tok) ELSE tok, 0)

\* Docopt::new(USAGE)?.deserialize()? succeeds.
ArgsOk(a) == ParsesAsUsize(a.w) /\ ParsesAsUsize(a.h)

----------------------------------------------------------------------------
(* Inputs the model draws from.                                            *)

WidthTokens == {<<"2">>, <<"x">>}
HeightTokens == {<<"0">>, <<"2">>, <<"-", "1">>}

\* Type tags and payload bytes a caller of ChunkWriter uses in SpecChunk.
Types == {IDAT, IEND}
PayloadBytes == {0, 255}

\* Bytes the compressor may emit.
ZBytes == {120, 156}

RECURSIVE SeqsUpTo(_, _)
\* All sequences over S of length 0..n.
SeqsUpTo(S, n) ==
    IF n = 0 THEN {<<>>}
    ELSE LET shorter == SeqsUpTo(S, n - 1)
         IN  shorter \cup {Append(s, x) : s \in shorter, x \in S}

----------------------------------------------------------------------------
(* State.                                                                  *)

VARIABLES
    pc,       \* the statement about to run
    stack,    \* return labels of the calls in progress, innermost first
    err,      \* the Err the program ended with, or NoError
    args,     \* parameters of the ChunkWriter / write_chunk call in progress
    data,     \* the sink's bytes
    pos,      \* the sink's cursor
    created,  \* run: File::create has succeeded
    cw,       \* the ChunkWriter: its state and its fields len, crc, start
    cur,      \* finish: the local `cur`
    wa,       \* write_all: the bytes still to be written
    wvia,     \* write_all: "sink" (W::write) or "cw" (ChunkWriter::write)
    payload,  \* history: bytes the sink accepted through ChunkWriter::write
    offered,  \* SpecChunk: bytes the caller has offered to the open chunk
    prev,     \* history: start and payload length of the chunk finished first
    lastRes,  \* history: the sink call made last and its answer
    shorts,   \* history: how many writes the sink has cut short
    argv,     \* run: the command-line tokens of --width and --height
    width,    \* render: width
    height,   \* render: height
    stage,    \* history: the orchestrator state of render
    pb,       \* the ProgressBar: total, count, and the sum add was given
    zr,       \* the ZeroReader
    zbuf,     \* the BufReader's filled, unconsumed bytes
    zeof,     \* the encoder has seen the end of its input
    fed,      \* history: bytes the encoder has consumed
    zout,     \* history: bytes the encoder has emitted
    block,    \* render: buf[..len] of the read just made
    yielded,  \* history: bytes all ZeroReader::read calls have returned
    zcall,    \* history: the ZeroReader::read call made last
    snap,     \* history: the sink's bytes when finish was called
    supplied, \* history: the bytes the caller has passed to the open chunk
    spin,     \* history: the Interrupted answers in a row to one write, mod 2
    wide      \* SpecWide: sizes and positions of 64 bits

ctlv == <<pc, stack, err>>
sinkv == <<data, pos, created>>
cwv == <<cw, cur, payload>>
wav == <<wa, wvia>>
envv == <<lastRes, shorts>>
runv == <<argv, width, height, stage, pb>>
zv == <<zr, zbuf, zeof, fed, zout, block, yielded, zcall>>
harv == <<args, offered, prev>>
morev == <<snap, supplied, spin, wide>>

vars == <<ctlv, sinkv, cwv, wav, envv, runv, zv, harv, morev>>

NoCall == [buf0 |-> <<>>, buf |-> <<>>, num |-> 0, at0 |-> 0]
NoRes == [op |-> "none", res |-> "none"]
NoArgs == [typ |-> <<>>, len |-> None, data |-> <<>>]
NoPrev == [set |-> FALSE, start |-> 0, n |-> 0]
NoWide == [pc |-> "none"]
NoBar == [total |-> 0, cur |-> 0, reported |-> 0, finished |-> FALSE]

\* The values every specification starts from, but for pc, data, pos,
\* created, argv and zr.
InitRest ==
    /\ stack = <<>>
    /\ err = NoError
    /\ args = NoArgs
    /\ cw = NoChunk
    /\ cur = 0
    /\ wa = <<>>
    /\ wvia = "sink"
    /\ payload = <<>>
    /\ offered = 0
    /\ prev = NoPrev
    /\ lastRes = NoRes
    /\ shorts = 0
    /\ width = 0
    /\ height = 0
    /\ stage = "Start"
    /\ pb = NoBar
    /\ zbuf = <<>>
    /\ zeof = FALSE
    /\ fed = <<>>
    /\ zout = <<>>
    /\ block = <<>>
    /\ yielded = <<>>
    /\ zcall = NoCall
    /\ snap = <<>>
    /\ supplied = <<>>
    /\ spin = 0

----------------------------------------------------------------------------
(* Calls, returns and the ? operator.                                      *)

Call(label, ret) == pc' = label /\ stack' = <<ret>> \o stack

Return == pc' = Head(stack) /\ stack' = Tail(stack)

\* An Err reaches run's caller through every `?` on the way.
Fail(e) == pc' = "failed" /\ stack' = <<>> /\ err' = e

\* writer.write_all(buf)?, continuing at ret.
CallWriteAll(buf, via, ret) ==
    /\ Call("write_all", ret)
    /\ wa' = buf
    /\ wvia' = via

----------------------------------------------------------------------------
(* One write_all: a loop of write calls on W or on the ChunkWriter.        *)

\* write returns Ok(n): the sink took the first n bytes offered.
write_all_ok ==
    /\ pc = "write_all"
    /\ wa # <<>>
    /\ \E n \in 0..Len(wa) :
        /\ n < Len(wa) => shorts < MaxShort
        /\ shorts' = IF n < Len(wa) THEN shorts + 1 ELSE shorts
        /\ data' = WriteAt(data, pos, SubSeq(wa, 1, n))
        /\ pos' = pos + n
        /\ lastRes' = [op |-> "write", res |-> "ok"]
        /\ spin' = 0
        /\ IF wvia = "cw"
           THEN /\ cw' = [cw EXCEPT !.crc = WriteCrc(cw.crc, wa, n)]
                /\ payload' = payload \o SubSeq(wa, 1, n)
           ELSE UNCHANGED <<cw, payload>>
        /\ IF n = 0
           THEN Fail(IoError("WriteZero")) /\ UNCHANGED wa
           ELSE wa' = SubSeq(wa, n + 1, Len(wa)) /\ UNCHANGED ctlv
    /\ UNCHANGED <<created, cur, wvia, runv, zv, harv, snap, supplied, wide>>

\* write returns Err(e): write_all goes round again or returns the error.
write_all_err ==
    /\ pc = "write_all"
    /\ wa # <<>>
    /\ \E kind \in ErrorKinds :
        /\ lastRes' = [op |-> "write", res |-> kind]
        /\ IF Retried(kind)
           THEN spin' = (spin + 1) % 2 /\ UNCHANGED ctlv
           ELSE spin' = 0 /\ Fail(IoError(kind))
    /\ UNCHANGED <<sinkv, cwv, wav, shorts, runv, zv, harv, snap, supplied,
                   wide>>

\* The buffer is empty: Ok(()).
write_all_return ==
    /\ pc = "write_all"
    /\ wa = <<>>
    /\ Return
    /\ UNCHANGED <<err, sinkv, cwv, wav, envv, runv, zv, harv, morev>>

----------------------------------------------------------------------------
(* ChunkWriter::begin(w, typ, len), its parameters in args.                *)

\* let start = w.seek(io::SeekFrom::Current(0))?;
begin_seek ==
    /\ pc = "begin"
    /\ \/ /\ cw' = [state |-> "building", len |-> args.len,
                    crc |-> DigestNew, start |-> pos]
          /\ payload' = <<>>
          /\ supplied' = <<>>
          /\ lastRes' = [op |-> "seek", res |-> "ok"]
          /\ pc' = "begin_len"
          /\ UNCHANGED <<stack, err>>
       \/ \E kind \in ErrorKinds :
            /\ lastRes' = [op |-> "seek", res |-> kind]
            /\ Fail(IoError(kind))
            /\ UNCHANGED <<cw, payload, supplied>>
    /\ UNCHANGED <<sinkv, cur, wav, shorts, runv, zv, harv, snap, spin, wide>>

\* w.write_all(&(len.unwrap_or(0) as u32).to_be_bytes())?;
begin_len ==
    /\ pc = "begin_len"
    /\ CallWriteAll(BeginLenField(args.len), "sink", "begin_typ")
    /\ UNCHANGED <<err, sinkv, cwv, envv, runv, zv, harv, morev>>

\* let mut crc = crc32::Digest::new(crc32::IEEE); w.write_all(&typ)?;
begin_typ ==
    /\ pc = "begin_typ"
    /\ CallWriteAll(args.typ, "sink", "begin_ok")
    /\ UNCHANGED <<err, sinkv, cwv, envv, runv, zv, harv, morev>>

\* crc.write(&typ); Ok(Self { w, len, crc, start })
begin_ok ==
    /\ pc = "begin_ok"
    /\ cw' = [cw EXCEPT !.state = "open", !.crc = BeginCrc(args.typ)]
    /\ Return
    /\ UNCHANGED <<err, sinkv, cur, payload, wav, envv, runv, zv, harv, morev>>

----------------------------------------------------------------------------
(* ChunkWriter::finish(self).                                              *)

\* let cur = self.w.seek(io::SeekFrom::Current(0))?;
finish_seek ==
    /\ pc = "finish"
    /\ snap' = data
    /\ \/ /\ cur' = pos
          /\ lastRes' = [op |-> "seek", res |-> "ok"]
          /\ pc' = "finish_check"
          /\ UNCHANGED <<stack, err>>
       \/ \E kind \in ErrorKinds :
            /\ lastRes' = [op |-> "seek", res |-> kind]
            /\ Fail(IoError(kind))
            /\ UNCHANGED cur
    /\ UNCHANGED <<sinkv, cw, payload, wav, shorts, runv, zv, harv, supplied,
                   spin, wide>>

\* if let Some(hlen) = self.len { if len != hlen { bail!(..) } } else { .. }
finish_check ==
    /\ pc = "finish_check"
    /\ IF cw.len.some
       THEN IF LenMismatch(FinishLen(cur, cw.start), cw.len.val)
            THEN Fail(MsgError)
            ELSE pc' = "finish_crc" /\ UNCHANGED <<stack, err>>
       ELSE pc' = "finish_seek_start" /\ UNCHANGED <<stack, err>>
    /\ UNCHANGED <<sinkv, cwv, wav, envv, runv, zv, harv, morev>>

\* self.w.seek(io::SeekFrom::Start(self.start))?;
finish_seek_start ==
    /\ pc = "finish_seek_start"
    /\ \/ /\ pos' = cw.start
          /\ lastRes' = [op |-> "seek", res |-> "ok"]
          /\ pc' = "finish_patch"
          /\ UNCHANGED <<stack, err>>
       \/ \E kind \in ErrorKinds :
            /\ lastRes' = [op |-> "seek", res |-> kind]
            /\ Fail(IoError(kind))
            /\ UNCHANGED pos
    /\ UNCHANGED <<data, created, cwv, wav, shorts, runv, zv, harv, morev>>

\* self.w.write_all(&(len as u32).to_be_bytes())?;
finish_patch ==
    /\ pc = "finish_patch"
    /\ CallWriteAll(FinishLenField(FinishLen(cur, cw.start)), "sink",
                    "finish_seek_cur")
    /\ UNCHANGED <<err, sinkv, cwv, envv, runv, zv, harv, morev>>

\* A finish that does not seek forward again after the rewrite.
finish_seek_cur_forgotten ==
    /\ pc = "finish_seek_cur"
    /\ lastRes' = [op |-> "seek", res |-> "ok"]
    /\ pc' = "finish_crc"
    /\ UNCHANGED <<stack, err, sinkv, cwv, wav, shorts, runv, zv, harv, morev>>

\* self.w.seek(io::SeekFrom::Start(cur))?;
finish_seek_cur ==
    /\ pc = "finish_seek_cur"
    /\ \/ /\ pos' = cur
          /\ lastRes' = [op |-> "seek", res |-> "ok"]
          /\ pc' = "finish_crc"
          /\ UNCHANGED <<stack, err>>
       \/ \E kind \in ErrorKinds :
            /\ lastRes' = [op |-> "seek", res |-> kind]
            /\ Fail(IoError(kind))
            /\ UNCHANGED pos
    /\ UNCHANGED <<data, created, cwv, wav, shorts, runv, zv, harv, morev>>

\* self.w.write_all(&self.crc.sum32().to_be_bytes())?;
finish_crc ==
    /\ pc = "finish_crc"
    /\ CallWriteAll(FinishCrcField(cw.crc), "sink", "finish_ok")
    /\ UNCHANGED <<err, sinkv, cwv, envv, runv, zv, harv, morev>>

\* Ok(self.w)
finish_ok ==
    /\ pc = "finish_ok"
    /\ cw' = [cw EXCEPT !.state = "finished"]
    /\ Return
    /\ UNCHANGED <<err, sinkv, cur, payload, wav, envv, runv, zv, harv, morev>>

----------------------------------------------------------------------------
(* write_chunk(w, typ, data), its parameters in args.                      *)

\* let mut cw = ChunkWriter::begin(w, typ, Some(data.len()))?;
write_chunk_begin ==
    /\ pc = "write_chunk"
    /\ args' = [args EXCEPT !.len = Some(Len(args.data))]
    /\ Call("begin", "write_chunk_write")
    /\ UNCHANGED <<err, sinkv, cwv, wav, envv, runv, zv, offered, prev, morev>>

\* cw.write_all(data)?;
write_chunk_write ==
    /\ pc = "write_chunk_write"
    /\ CallWriteAll(args.data, "cw", "write_chunk_finish")
    /\ supplied' = supplied \o args.data
    /\ UNCHANGED <<err, sinkv, cwv, envv, runv, zv, harv, snap, spin, wide>>

\* cw.finish()
write_chunk_finish ==
    /\ pc = "write_chunk_finish"
    /\ pc' = "finish"
    /\ UNCHANGED <<stack, err, sinkv, cwv, wav, envv, runv, zv, harv, morev>>

ChunkNext ==
    \/ write_all_ok \/ write_all_err \/ write_all_return
    \/ begin_seek \/ begin_len \/ begin_typ \/ begin_ok
    \/ finish_seek \/ finish_check \/ finish_seek_start \/ finish_patch
    \/ finish_seek_cur \/ finish_crc \/ finish_ok
    \/ write_chunk_begin \/ write_chunk_write \/ write_chunk_finish

----------------------------------------------------------------------------
(* render(out, width, height, color_type, bit_depth).                      *)

\* out.write_all(&[137, 80, 78, 71, 13, 10, 26, 10])?;
render_sig ==
    /\ pc = "render"
    /\ CallWriteAll(SIGNATURE, "sink", "render_ihdr")
    /\ UNCHANGED <<err, sinkv, cwv, envv, runv, zv, harv, morev>>

\* out = write_chunk(out, png::chunk::IHDR, &hdr)?;
render_ihdr ==
    /\ pc = "render_ihdr"
    /\ stage' = "Header"
    /\ args' = [typ |-> IHDR, len |-> None,
                data |-> Hdr(width, height, One, Grayscale)]
    /\ Call("write_chunk", "render_idat")
    /\ UNCHANGED <<err, sinkv, cwv, wav, envv, argv, width, height, pb, zv,
                   offered, prev, morev>>

\* let idata = ZeroReader::new(ibytes); let mut zdata = ZlibEncoder::new(..);
\* let mut pb = ProgressBar::new(ibytes as u64);
\* let mut idat = ChunkWriter::begin(out, png::chunk::IDAT, None)?;
render_idat ==
    /\ pc = "render_idat"
    /\ stage' = "ImageData"
    /\ zr' = ZeroReader_new(Ibytes(width, height, Grayscale, One))
    /\ pb' = [NoBar EXCEPT !.total = Ibytes(width, height, Grayscale, One)]
    /\ args' = [typ |-> IDAT, len |-> None, data |-> <<>>]
    /\ Call("begin", "render_read")
    /\ UNCHANGED <<err, sinkv, cwv, wav, envv, argv, width, height, zbuf, zeof,
                   fed, zout, block, yielded, zcall, offered, prev, morev>>

\* A BufReader that reports the end of input whenever its buffer is empty,
\* without asking the ZeroReader.
FillBufNoRefill ==
    [zr |-> zr, input |-> zbuf, called |-> FALSE, buf |-> <<>>]

\* The input the encoder sees on one turn of its read loop: the BufReader's
\* unconsumed bytes, or, when it has none, one ZeroReader::read into its
\* buffer of BufCap bytes.
FillBuf ==
    IF zbuf # <<>>
    THEN [zr |-> zr, input |-> zbuf, called |-> FALSE, buf |-> <<>>]
    ELSE LET r == ZeroReader_read(zr, [i \in 1..BufCap |-> Garbage])
         IN  [zr |-> r.zr, input |-> SubSeq(r.buf, 1, r.num), called |-> TRUE,
              buf |-> r.buf]

\* let len = zdata.read(&mut buf[..])?; if len == 0 { break; }
\* idat.write_all(&buf[..len])?;
\* One turn of the encoder's read loop: it takes c bytes of its input and
\* emits `out`; with nothing emitted before the end of input it goes round
\* again, and it returns 0 only at the end of input.
render_read ==
    /\ pc = "render_read"
    /\ LET f == FillBuf
           eof == f.input = <<>>
       IN  \E c \in 0..Len(f.input),
              out \in SeqsUpTo(ZBytes, Min(BlockCap, MaxZ - Len(zout))) :
            /\ eof \/ c > 0 \/ out # <<>>
            /\ zr' = f.zr
            /\ zbuf' = SubSeq(f.input, c + 1, Len(f.input))
            /\ fed' = fed \o SubSeq(f.input, 1, c)
            /\ zout' = zout \o out
            /\ zeof' = (zeof \/ eof)
            /\ yielded' = IF f.called /\ zbuf = <<>> THEN yielded \o f.input
                          ELSE yielded
            /\ zcall' = IF f.called
                        THEN [buf0 |-> [i \in 1..BufCap |-> Garbage],
                              buf |-> f.buf, num |-> Len(f.input), at0 |-> zr.at]
                        ELSE zcall
            /\ supplied' = supplied \o out
            /\ IF out # <<>>
               THEN /\ block' = out
                    /\ CallWriteAll(out, "cw", "render_pb")
                    /\ UNCHANGED err
               ELSE /\ pc' = IF eof THEN "render_finish" ELSE "render_read"
                    /\ UNCHANGED <<stack, err, block, wav>>
    /\ UNCHANGED <<sinkv, cwv, envv, runv, harv, snap, spin, wide>>

\* pb.add(len as u64);
render_pb ==
    /\ pc = "render_pb"
    /\ pb' = [pb EXCEPT !.cur = @ + Len(block), !.reported = @ + Len(block)]
    /\ pc' = "render_read"
    /\ UNCHANGED <<stack, err, sinkv, cwv, wav, envv, argv, width, height,
                   stage, zv, harv, morev>>

\* A render that goes on to the trailer with the image-data chunk left open.
render_finish_skipped ==
    /\ pc = "render_finish"
    /\ pc' = "render_iend"
    /\ UNCHANGED <<stack, err, sinkv, cwv, wav, envv, runv, zv, harv, morev>>

\* A render whose loop does not end on a read of 0 but reads again.
render_finish_reads_again ==
    /\ pc = "render_finish"
    /\ pc' = "render_read"
    /\ UNCHANGED <<stack, err, sinkv, cwv, wav, envv, runv, zv, harv, morev>>

\* pb.finish(); out = idat.finish()?;
\* finish moves a count that is short of the total up to the total, draws
\* the bar a last time and marks it finished.
render_finish ==
    /\ pc = "render_finish"
    /\ pb' = [pb EXCEPT !.cur = Max(pb.cur, pb.total), !.finished = TRUE]
    /\ Call("finish", "render_iend")
    /\ UNCHANGED <<err, sinkv, cwv, wav, envv, argv, width, height, stage, zv,
                   harv, morev>>

\* A render that writes a second header chunk where the trailer belongs.
render_iend_repeats_header ==
    /\ pc = "render_iend"
    /\ stage' = "Header"
    /\ args' = [typ |-> IHDR, len |-> None,
                data |-> Hdr(width, height, One, Grayscale)]
    /\ Call("write_chunk", "render_ok")
    /\ UNCHANGED <<err, sinkv, cwv, wav, envv, argv, width, height, pb, zv,
                   offered, prev, morev>>

\* out = write_chunk(out, png::chunk::IEND, &[])?;
render_iend ==
    /\ pc = "render_iend"
    /\ stage' = "Trailer"
    /\ args' = [typ |-> IEND, len |-> None, data |-> <<>>]
    /\ Call("write_chunk", "render_ok")
    /\ UNCHANGED <<err, sinkv, cwv, wav, envv, argv, width, height, pb, zv,
                   offered, prev, morev>>

\* Ok(out)
render_ok ==
    /\ pc = "render_ok"
    /\ stage' = "Done"
    /\ Return
    /\ UNCHANGED <<err, sinkv, cwv, wav, envv, argv, width, height, pb, zv,
                   harv, morev>>

----------------------------------------------------------------------------
(* run().                                                                  *)

\* A run that creates the output file before it looks at the arguments.
run_parse_after_create ==
    /\ pc = "run"
    /\ created' = TRUE
    /\ IF ArgsOk(argv)
       THEN /\ width' = ParseUsize(argv.w)
            /\ height' = ParseUsize(argv.h)
            /\ pc' = "run_create"
            /\ UNCHANGED <<stack, err>>
       ELSE /\ Fail(DocoptError)
            /\ UNCHANGED <<width, height>>
    /\ UNCHANGED <<data, pos, cwv, wav, envv, argv, stage, pb, zv, harv, morev>>

\* let args: Args = Docopt::new(USAGE)?.deserialize()?;
run_parse ==
    /\ pc = "run"
    /\ IF ArgsOk(argv)
       THEN /\ width' = ParseUsize(argv.w)
            /\ height' = ParseUsize(argv.h)
            /\ pc' = "run_create"
            /\ UNCHANGED <<stack, err>>
       ELSE /\ Fail(DocoptError)
            /\ UNCHANGED <<width, height>>
    /\ UNCHANGED <<sinkv, cwv, wav, envv, argv, stage, pb, zv, harv, morev>>

\* render(&mut File::create(args.arg_outfile)?, ..)
run_create ==
    /\ pc = "run_create"
    /\ \/ /\ created' = TRUE
          /\ data' = <<>>
          /\ pos' = 0
          /\ Call("render", "run_ok")
          /\ UNCHANGED err
       \/ \E kind \in ErrorKinds :
            /\ Fail(IoError(kind))
            /\ UNCHANGED sinkv
    /\ UNCHANGED <<cwv, wav, envv, runv, zv, harv, morev>>

\* render(..)?; Ok(())
run_ok ==
    /\ pc = "run_ok"
    /\ pc' = "done"
    /\ UNCHANGED <<stack, err, sinkv, cwv, wav, envv, runv, zv, harv, morev>>

RunNext ==
    \/ run_parse \/ run_create \/ run_ok
    \/ render_sig \/ render_ihdr \/ render_idat \/ render_read \/ render_pb
    \/ render_finish \/ render_iend \/ render_ok

NoArgv == [w |-> <<>>, h |-> <<>>]

Init ==
    /\ pc = "run"
    /\ argv \in [w : WidthTokens, h : HeightTokens]
    /\ data = <<>>
    /\ pos = 0
    /\ created = FALSE
    /\ zr = ZeroReader_new(0)
    /\ wide = NoWide
    /\ InitRest

Next == RunNext \/ ChunkNext

\* The program: run on one command line, over a sink that may fail a call
\* or cut a write short.
Spec == Init /\ [][Next]_vars

\* The program as it runs: it is one thread, and as long as it has a step to
\* take it takes one.  What the sink answers is not the program's to choose;
\* no fairness is asked of it.
SpecLive == Spec /\ WF_vars(Next)

----------------------------------------------------------------------------
(* A caller of one ChunkWriter, for the framer on its own: any type, any   *)
(* length mode, any payload in any split, over a sink at any position.     *)

\* ChunkWriter::begin(w, typ, len)
caller_begin ==
    /\ pc = "idle"
    /\ \E typ \in Types, len \in {None} \cup {Some(n) : n \in 0..MaxPayload} :
        args' = [typ |-> typ, len |-> len, data |-> <<>>]
    /\ Call("begin", "open")
    /\ UNCHANGED <<err, sinkv, cwv, wav, envv, runv, zv, offered, prev, morev>>

\* write_chunk(w, typ, data)
caller_write_chunk ==
    /\ pc = "idle"
    /\ \E typ \in Types, d \in SeqsUpTo(PayloadBytes, MaxPayload) :
        /\ args' = [typ |-> typ, len |-> None, data |-> d]
        /\ offered' = Len(d)
    /\ Call("write_chunk", "written")
    /\ UNCHANGED <<err, sinkv, cwv, wav, envv, runv, zv, prev, morev>>

\* cw.write(bytes)?: one call of ChunkWriter::write.
\* let num = self.w.write(data)?; self.crc.write(data); Ok(num)
caller_write ==
    /\ pc = "open"
    /\ \E bytes \in SeqsUpTo(PayloadBytes, MaxPayload - offered) \ {<<>>} :
        /\ offered' = offered + Len(bytes)
        /\ supplied' = supplied \o bytes
        /\ \/ \E n \in 0..Len(bytes) :
                /\ n < Len(bytes) => shorts < MaxShort
                /\ shorts' = IF n < Len(bytes) THEN shorts + 1 ELSE shorts
                /\ data' = WriteAt(data, pos, SubSeq(bytes, 1, n))
                /\ pos' = pos + n
                /\ lastRes' = [op |-> "write", res |-> "ok"]
                /\ cw' = [cw EXCEPT !.crc = WriteCrc(cw.crc, bytes, n)]
                /\ payload' = payload \o SubSeq(bytes, 1, n)
                /\ UNCHANGED ctlv
           \/ \E kind \in ErrorKinds :
                /\ lastRes' = [op |-> "write", res |-> kind]
                /\ Fail(IoError(kind))
                /\ UNCHANGED <<data, pos, cw, payload, shorts>>
    /\ UNCHANGED <<created, cur, wav, runv, zv, args, prev, snap, spin, wide>>

\* cw.write_all(bytes)?
caller_write_all ==
    /\ pc = "open"
    /\ \E bytes \in SeqsUpTo(PayloadBytes, MaxPayload - offered) \ {<<>>} :
        /\ offered' = offered + Len(bytes)
        /\ supplied' = supplied \o bytes
        /\ CallWriteAll(bytes, "cw", "open")
    /\ UNCHANGED <<err, sinkv, cwv, envv, runv, zv, args, prev, snap, spin,
                   wide>>

\* cw.finish()
caller_finish ==
    /\ pc = "open"
    /\ Call("finish", "closed")
    /\ UNCHANGED <<err, sinkv, cwv, wav, envv, runv, zv, harv, morev>>

CallerNext ==
    \/ caller_begin \/ caller_write_chunk \/ caller_write \/ caller_write_all
    \/ caller_finish

ChunkInit ==
    /\ pc = "idle"
    /\ argv = NoArgv
    /\ \E k \in 0..MaxPre : data = [i \in 1..k |-> Garbage]
    /\ pos \in 0..MaxPre
    /\ created = TRUE
    /\ zr = ZeroReader_new(0)
    /\ wide = NoWide
    /\ InitRest

SpecChunk == ChunkInit /\ [][CallerNext \/ ChunkNext]_vars

----------------------------------------------------------------------------
(* A caller of one ZeroReader: any count, reads into buffers of any size.  *)

\* reader.read(&mut buf)
zero_read ==
    /\ pc = "reading"
    /\ \E buf \in SeqsUpTo({Garbage, 0}, MaxBuf) :
        LET r == ZeroReader_read(zr, buf)
        IN  /\ zr' = r.zr
            /\ zcall' = [buf0 |-> buf, buf |-> r.buf, num |-> r.num,
                         at0 |-> zr.at]
            /\ yielded' = yielded \o SubSeq(r.buf, 1, r.num)
    /\ UNCHANGED <<ctlv, sinkv, cwv, wav, envv, runv, zbuf, zeof, fed, zout,
                   block, harv, morev>>

ZeroInit ==
    /\ pc = "reading"
    /\ argv = NoArgv
    /\ data = <<>>
    /\ pos = 0
    /\ created = FALSE
    /\ \E count \in 0..MaxCount : zr = ZeroReader_new(count)
    /\ wide = NoWide
    /\ InitRest

SpecZeroReader == ZeroInit /\ [][zero_read]_vars

----------------------------------------------------------------------------
(* Two chunks of one type and one payload on one sink: the first written   *)
(* by write_chunk (known length), the second begun with len = None.        *)

\* write_chunk(w, typ, data)
pair_known ==
    /\ pc = "pair"
    /\ \E typ \in Types, d \in SeqsUpTo(PayloadBytes, MaxPayload) :
        args' = [typ |-> typ, len |-> None, data |-> d]
    /\ Call("write_chunk", "pair_begin")
    /\ UNCHANGED <<err, sinkv, cwv, wav, envv, runv, zv, offered, prev, morev>>

\* ChunkWriter::begin(w, typ, None)
pair_begin ==
    /\ pc = "pair_begin"
    /\ prev' = [set |-> TRUE, start |-> cw.start, n |-> Len(payload)]
    /\ args' = [args EXCEPT !.len = None]
    /\ Call("begin", "pair_write")
    /\ UNCHANGED <<err, sinkv, cwv, wav, envv, runv, zv, offered, morev>>

\* cw.write_all(data)?
pair_write ==
    /\ pc = "pair_write"
    /\ CallWriteAll(args.data, "cw", "pair_finish")
    /\ supplied' = supplied \o args.data
    /\ UNCHANGED <<err, sinkv, cwv, envv, runv, zv, harv, snap, spin, wide>>

\* cw.finish()
pair_finish ==
    /\ pc = "pair_finish"
    /\ Call("finish", "closed")
    /\ UNCHANGED <<err, sinkv, cwv, wav, envv, runv, zv, harv, morev>>

PairNext == pair_known \/ pair_begin \/ pair_write \/ pair_finish

PairInit ==
    /\ pc = "pair"
    /\ argv = NoArgv
    /\ \E k \in 0..MaxPre : data = [i \in 1..k |-> Garbage]
    /\ pos \in 0..MaxPre
    /\ created = TRUE
    /\ zr = ZeroReader_new(0)
    /\ wide = NoWide
    /\ InitRest

SpecPair == PairInit /\ [][PairNext \/ ChunkNext]_vars

----------------------------------------------------------------------------
(* Sizes of 64 bits.  A usize or u64 is kept as its eight bytes, most      *)
(* significant first.  Of the sink only the cursor and the length field of *)
(* the chunk are kept, and of the payload only the number of its bytes;    *)
(* every sink call succeeds and takes all it is given.                     *)

\* The usize of a natural below 2^31.
Wide(n) == <<0, 0, 0, 0>> \o to_be_bytes(n)

\* (x as u32).to_be_bytes() for a usize x: the low 32 bits.
as_u32(x) == SubSeq(x, 5, 8)

\* (x as usize) for a u32 x.
as_usize(x) == <<0, 0, 0, 0>> \o x

Rev(s) == [i \in 1..Len(s) |-> s[Len(s) + 1 - i]]

First(s) == IF s = <<>> THEN 0 ELSE Head(s)

Rest(s) == IF s = <<>> THEN <<>> ELSE Tail(s)

RECURSIVE AddDigits(_, _, _)
\* a + b + c on digits of base 256, least significant first.
AddDigits(a, b, c) ==
    IF a = <<>> /\ b = <<>>
    THEN IF c = 0 THEN <<>> ELSE <<c>>
    ELSE LET sum == First(a) + First(b) + c
         IN  <<sum % 256>> \o AddDigits(Rest(a), Rest(b), sum \div 256)

RECURSIVE SubDigits(_, _, _)
\* a - b - c on digits of base 256, least significant first, modulo
\* 256^Len(a).
SubDigits(a, b, c) ==
    IF a = <<>> THEN <<>>
    ELSE LET diff == Head(a) - First(b) - c
         IN  <<(diff + 256) % 256>>
                 \o SubDigits(Tail(a), Rest(b), IF diff < 0 THEN 1 ELSE 0)

RECURSIVE MulDigit(_, _, _)
\* a * d + c for one digit d.
MulDigit(a, d, c) ==
    IF a = <<>>
    THEN IF c = 0 THEN <<>> ELSE <<c>>
    ELSE LET prod == Head(a) * d + c
         IN  <<prod % 256>> \o MulDigit(Tail(a), d, prod \div 256)

RECURSIVE MulDigits(_, _)
\* a * b.
MulDigits(a, b) ==
    IF b = <<>> THEN <<>>
    ELSE AddDigits(MulDigit(a, Head(b), 0), <<0>> \o MulDigits(a, Tail(b)), 0)

RECURSIVE DivDigits(_, _, _)
\* (r, a) \div d for a small d, digits most significant first.
DivDigits(a, d, r) ==
    IF a = <<>> THEN <<>>
    ELSE LET x == r * 256 + Head(a)
         IN  <<x \div d>> \o DivDigits(Tail(a), d, x % d)

\* The low 64 bits of a number given by its digits.
Low64(digits) == [i \in 1..8 |-> IF i <= Len(digits) THEN digits[i] ELSE 0]

\* The number does not fit 64 bits.
Exceeds64(digits) == \E i \in 9..Len(digits) : digits[i] # 0

\* a + b, a - b and a * b on usize, wrapping.
Add64(a, b) == Rev(Low64(AddDigits(Rev(a), Rev(b), 0)))
Sub64(a, b) == Rev(SubDigits(Rev(a), Rev(b), 0))
Mul64(a, b) == Rev(Low64(MulDigits(Rev(a), Rev(b))))

\* a * b overflows usize.
MulOverflows(a, b) == Exceeds64(MulDigits(Rev(a), Rev(b)))

\* a / d and a % d on usize, for a power of two d below 256.
Div64(a, d) == DivDigits(a, d, 0)
Mod64(a, d) == a[8] % d

\* png::Info::raw_row_length() on usize, for the width of the Info (a u32).
raw_row_length_usize(w, color_type, bit_depth) ==
    LET bits == Mul64(Mul64(as_usize(w), Wide(Samples(color_type))),
                      Wide(bit_depth))
    IN  Add64(Add64(Div64(bits, 8),
                    Wide(IF Mod64(bits, 8) = 0 THEN 0 ELSE 1)), Wide(1))

U32_MAX == <<0, 0, 0, 0, 255, 255, 255, 255>>
TwoTo32 == <<0, 0, 0, 1, 0, 0, 0, 0>>
TwoTo63 == <<128, 0, 0, 0, 0, 0, 0, 0>>

\* The widths and heights render is called with.
WideDims == {Wide(0), Wide(2), U32_MAX, TwoTo32, Add64(TwoTo32, Wide(2)),
             TwoTo63}

\* The numbers of bytes one write adds to a chunk.
WideSizes == {Wide(1), Wide(13), U32_MAX, TwoTo32}

\* The declared lengths of known-length chunks.
WideLens == {Wide(0), Wide(14), TwoTo32, Add64(TwoTo32, Wide(1))}

restv == <<ctlv, sinkv, cwv, wav, envv, runv, zv, harv, snap, supplied, spin>>

\* render up to the header chunk: the Info, the signature (8 bytes) and the
\* chunk of the 13 header bytes (25 bytes).
wide_render ==
    /\ wide.pc = "render"
    /\ wide' = [wide EXCEPT
            !.pc = "ibytes",
            !.info = [width |-> as_u32(wide.width),
                      height |-> as_u32(wide.height)],
            !.hdr = as_u32(wide.width) \o as_u32(wide.height)
                        \o <<One, Grayscale, 0, 0, 0>>,
            !.pos = Wide(8 + 25)]
    /\ UNCHANGED restv

\* let ibytes = info.raw_row_length() * height;
\* The product may overflow: a build with overflow checks panics, a build
\* without them wraps.
\* let mut idat = ChunkWriter::begin(out, png::chunk::IDAT, None)?;
wide_ibytes ==
    /\ wide.pc = "ibytes"
    /\ LET row == raw_row_length_usize(wide.info.width, Grayscale, One)
       IN  \/ /\ MulOverflows(row, wide.height)
              /\ wide' = [wide EXCEPT !.pc = "panicked"]
           \/ wide' = [wide EXCEPT
                  !.pc = "loop",
                  !.ibytes = Mul64(row, wide.height),
                  !.len = None,
                  !.start = wide.pos,
                  !.field = as_u32(Wide(0)),
                  !.count = Wide(0),
                  !.pos = Add64(wide.pos, Wide(8))]
    /\ UNCHANGED restv

\* loop { let len = zdata.read(&mut buf[..])?; if len == 0 { break; }
\*        idat.write_all(&buf[..len])?; .. }
\* The whole loop: the encoder takes all the ZeroReader yields, which is
\* ibytes bytes, and what it emits, n bytes in all, goes to the chunk.
wide_loop ==
    /\ wide.pc = "loop"
    /\ \E n \in WideSizes :
        wide' = [wide EXCEPT
            !.pc = "open",
            !.fed = wide.ibytes,
            !.count = n,
            !.writes = MaxWideWrites,
            !.pos = Add64(wide.pos, n)]
    /\ UNCHANGED restv

\* ChunkWriter::begin(w, typ, len)
wide_begin ==
    /\ wide.pc = "idle"
    /\ \E len \in {None} \cup {Some(n) : n \in WideLens} :
        wide' = [wide EXCEPT
            !.pc = "open",
            !.len = len,
            !.start = wide.pos,
            !.field = as_u32(IF len.some THEN len.val ELSE Wide(0)),
            !.count = Wide(0),
            !.pos = Add64(wide.pos, Wide(8))]
    /\ UNCHANGED restv

\* cw.write_all(bytes)? for n bytes
wide_write ==
    /\ wide.pc = "open"
    /\ wide.writes < MaxWideWrites
    /\ \E n \in WideSizes :
        wide' = [wide EXCEPT
            !.writes = @ + 1,
            !.count = Add64(wide.count, n),
            !.pos = Add64(wide.pos, n)]
    /\ UNCHANGED restv

\* ChunkWriter::finish(self)
wide_finish ==
    /\ wide.pc = "open"
    /\ LET cur64 == wide.pos
           len == Sub64(Sub64(Sub64(cur64, wide.start), Wide(4)), Wide(4))
       IN  IF wide.len.some
           THEN IF len # wide.len.val
                THEN wide' = [wide EXCEPT !.pc = "failed"]
                ELSE wide' = [wide EXCEPT !.pc = "closed",
                                          !.pos = Add64(cur64, Wide(4))]
           ELSE wide' = [wide EXCEPT !.pc = "closed",
                                     !.field = as_u32(len),
                                     !.pos = Add64(cur64, Wide(4))]
    /\ UNCHANGED restv

WideNext ==
    \/ wide_render \/ wide_ibytes \/ wide_loop
    \/ wide_begin \/ wide_write \/ wide_finish

\* What the fields of `wide` hold before they are set.
WideRest ==
    [info |-> [width |-> as_u32(Wide(0)), height |-> as_u32(Wide(0))],
     hdr |-> <<>>, ibytes |-> Wide(0), fed |-> Wide(0), len |-> None,
     start |-> Wide(0), field |-> as_u32(Wide(0)), count |-> Wide(0),
     writes |-> 0]

WideInit ==
    /\ pc = "wide"
    /\ argv = NoArgv
    /\ data = <<>>
    /\ pos = 0
    /\ created = TRUE
    /\ zr = ZeroReader_new(0)
    /\ InitRest
    /\ \/ \E w \in WideDims, h \in WideDims :
            wide = [pc |-> "render", width |-> w, height |-> h, pos |-> Wide(0)]
                       @@ WideRest
       \/ \E p \in {Wide(0), Wide(33)} :
            wide = [pc |-> "idle", width |-> Wide(0), height |-> Wide(0),
                    pos |-> p] @@ WideRest

\* render, and a caller of one ChunkWriter, on sizes of 64 bits.
SpecWide == WideInit /\ [][WideNext]_vars

----------------------------------------------------------------------------
(* Properties.                                                             *)

\* n bytes of the sink from offset off (0-based).
Field(off, n) == SubSeq(data, off + 1, off + n)

\* The chunk finished last: finish has returned Ok.
Finished == cw.state = "finished"

\* The position of finish in its trailing checksum write.
InFinishCrc ==
    \/ pc \in {"finish_crc", "finish_ok"}
    \/ pc = "write_all" /\ stack # <<>> /\ Head(stack) = "finish_ok"

(* C1: after finish succeeds on a deferred-length chunk (len = None)       *)
(* begun at any sink position, the four big-endian bytes at the chunk's    *)
(* start hold the number of payload bytes the sink took between begin and  *)
(* finish, and those bytes lie behind the type, whatever the payload size  *)
(* and however it was split over write and write_all calls.                *)
DeferredLengthPatched ==
    (Finished /\ ~cw.len.some) =>
        /\ from_be_bytes(Field(cw.start, 4)) = Len(payload)
        /\ Field(cw.start + 8, Len(payload)) = payload

DeferredLengthWitness ==
    /\ Finished
    /\ ~cw.len.some
    /\ cw.start > 0
    /\ Len(payload) >= 2
    /\ shorts > 0

\* A known-length chunk holding another number of payload bytes than
\* declared.
Mismatched == cw.state = "open" /\ cw.len.some /\ Len(payload) # cw.len.val

(* C2: a known-length chunk opened with Known(n) that holds m # n payload  *)
(* bytes is never finished: finish never reaches its checksum write, so no *)
(* checksum byte is written and the cursor stays behind the payload; and   *)
(* once finish has read the cursor, it fails with the length-mismatch      *)
(* error (error kind Msg, not IO).                                         *)
KnownMismatchFails ==
    Mismatched =>
        /\ ~InFinishCrc
        /\ pc \notin {"closed", "written"}
        /\ (pc = "failed" /\ lastRes = [op |-> "seek", res |-> "ok"]) =>
              /\ err = MsgError
              /\ pos = cw.start + 8 + Len(payload)
        /\ err.kind = "Msg" => pos = cw.start + 8 + Len(payload)

KnownMismatchWitness ==
    /\ Mismatched
    /\ err = MsgError
    /\ Len(payload) = cw.len.val + 1

(* C3: while a chunk is open, the bytes hashed into its digest are the     *)
(* type followed by the payload bytes the sink has taken so far, also      *)
(* after a write of which the sink took only a prefix.                     *)
ChecksumCoversForwarded ==
    cw.state = "open" => cw.crc = DigestWrite(DigestNew, args.typ \o payload)

(* C4: two chunks of the same type and payload, one of known length and    *)
(* one of deferred length, end with the same four checksum bytes.          *)
ChecksumSameInBothModes ==
    (pc = "closed" /\ prev.set /\ prev.n = Len(payload)) =>
        Field(prev.start + 8 + prev.n, 4) = Field(cw.start + 8 + Len(payload), 4)

(* C5: write_chunk appends the big-endian payload length, the type, the    *)
(* payload unchanged and the big-endian CRC-32 of type and payload, and    *)
(* nothing else.                                                           *)
WriteChunkRoundTrip ==
    pc = "written" =>
        /\ Field(cw.start, 12 + Len(args.data)) =
              to_be_bytes(Len(args.data)) \o args.typ \o args.data
                  \o Crc32(args.typ \o args.data)
        /\ pos = cw.start + 12 + Len(args.data)

\* The bytes the caller's buffer must hold after the call made last.
ExpectedBuf ==
    [i \in 1..Len(zcall.buf0) |-> IF i <= zcall.num THEN 0 ELSE zcall.buf0[i]]

(* C6: a ZeroReader created for N bytes never counts past N; all it has    *)
(* yielded are zeros, as many as its counter says; a read fills the front  *)
(* of the buffer with min(buffer size, bytes left) zeros and leaves the    *)
(* rest alone; and a read made once N bytes are out returns 0 and leaves   *)
(* the whole buffer alone.                                                 *)
ZeroReaderExhaustion ==
    /\ zr.at <= zr.count
    /\ Len(yielded) = zr.at
    /\ \A i \in 1..Len(yielded) : yielded[i] = 0
    /\ zcall.num = Min(Len(zcall.buf0), zr.count - zcall.at0)
    /\ zcall.buf = ExpectedBuf
    /\ zcall.at0 = zr.count => (zcall.num = 0 /\ zcall.buf = zcall.buf0)

ZeroReaderExhaustedWitness ==
    /\ zr.count >= 2
    /\ zr.at = zr.count
    /\ zcall.at0 = zr.count
    /\ \E i \in 1..Len(zcall.buf0) : zcall.buf0[i] = Garbage

\* The orchestrator states in their order.
StageRank(st) ==
    CASE st = "Start" -> 0
      [] st = "Header" -> 1
      [] st = "ImageData" -> 2
      [] st = "Trailer" -> 3
      [] st = "Done" -> 4

\* The sink after a successful render, but for the three checksum fields:
\* signature, IHDR of length 13, IDAT holding what the encoder emitted,
\* IEND of length 0, back to back and nothing after them.
RenderLayout ==
    /\ Len(data) = 8 + 25 + 12 + Len(zout) + 12
    /\ pos = Len(data)
    /\ Field(0, 8) = SIGNATURE
    /\ Field(8, 4) = to_be_bytes(13)
    /\ Field(12, 4) = IHDR
    /\ Field(33, 4) = to_be_bytes(Len(zout))
    /\ Field(37, 4) = IDAT
    /\ Field(41, Len(zout)) = zout
    /\ Field(45 + Len(zout), 4) = to_be_bytes(0)
    /\ Field(49 + Len(zout), 4) = IEND

(* C7: render passes Start, Header, ImageData, Trailer, Done one after the *)
(* other, never back and never skipping one, and when run has succeeded    *)
(* the sink holds the signature, the header chunk of known length 13, the  *)
(* image-data chunk of patched length and the empty trailer chunk, each    *)
(* once, in this order, with nothing between or after them.                *)
RenderOrder ==
    [][/\ StageRank(stage') \in {StageRank(stage), StageRank(stage) + 1}
       /\ pc' = "done" => (stage' = "Done" /\ RenderLayout')]_vars

RenderOrderWitness ==
    /\ pc = "done"
    /\ stage = "Done"
    /\ Len(zout) >= 2
    /\ shorts > 0

\* The header chunk is in the sink.
HeaderWritten == stage \in {"ImageData", "Trailer", "Done"}

\* The encoder has returned 0: all image data has been fed to it.
ImageDataFed == pc = "render_finish" \/ stage \in {"Trailer", "Done"}

(* C8: the header payload render writes is 13 bytes: width and height as   *)
(* four big-endian bytes each, bit depth 1, colour type 0, three zero      *)
(* bytes; and the data fed to the encoder is height rows of one filter     *)
(* byte and ceil(width / 8) packed bytes, all zero.  For 2 x 2 these are   *)
(* 00 00 00 02 00 00 00 02 01 00 00 00 00 and 00 00 00 00.                 *)
HeaderAndImageData ==
    /\ HeaderWritten =>
          /\ from_be_bytes(Field(8, 4)) = 13
          /\ Field(16, 13) =
                to_be_bytes(width) \o to_be_bytes(height) \o <<1, 0, 0, 0, 0>>
          /\ (width = 2 /\ height = 2) =>
                Field(16, 13) = <<0, 0, 0, 2, 0, 0, 0, 2, 1, 0, 0, 0, 0>>
    /\ ImageDataFed =>
          /\ fed = Zeros(height * (1 + ((width + 7) \div 8)))
          /\ (width = 2 /\ height = 2) => fed = <<0, 0, 0, 0>>

HeaderAndImageDataWitness ==
    /\ pc = "done"
    /\ width = 2
    /\ height = 2
    /\ fed = <<0, 0, 0, 0>>

\* The sink call made last failed and was not a write that write_all
\* repeats.
HardFailure ==
    /\ lastRes.res \in ErrorKinds
    /\ ~(lastRes.op = "write" /\ lastRes.res = "Interrupted")

ArgumentFailureWritesNothing ==
    (~ArgsOk(argv) \/ err.kind = "Docopt") =>
        /\ pc \in {"run", "failed"}
        /\ pc = "failed" => err = DocoptError
        /\ ~created
        /\ data = <<>>
        /\ cw = NoChunk
        /\ lastRes = NoRes
        /\ stage = "Start"

ArgumentFailureWitness ==
    /\ pc = "failed"
    /\ err = DocoptError
    /\ argv.w = <<"2">>
    /\ argv.h = <<"-", "1">>

\* The statements of begin, and the writes begin makes on W.
InBegin ==
    \/ pc \in {"begin", "begin_len", "begin_typ", "begin_ok"}
    \/ pc = "write_all" /\ stack # <<>>
          /\ Head(stack) \in {"begin_typ", "begin_ok"}

\* The statements of finish, and the writes finish makes on W.
InFinish ==
    \/ pc \in {"finish", "finish_check", "finish_seek_start", "finish_patch",
               "finish_seek_cur", "finish_crc", "finish_ok"}
    \/ pc = "write_all" /\ stack # <<>>
          /\ Head(stack) \in {"finish_seek_cur", "finish_ok"}

\* A ChunkWriter holds the sink: begin has taken W and finish has not
\* returned it.
ChunkHoldsSink == cw.state \in {"building", "open"}

(* C11: in render at most one ChunkWriter holds the sink: begin is called  *)
(* only when no chunk holds it (none begun yet, or the one before finished *)
(* and returned it), and while a chunk holds it every write on the sink is *)
(* made by that chunk: by its begin, by its write, or by its finish.       *)
OneChunkAtATime ==
    /\ pc = "begin" => ~ChunkHoldsSink
    /\ (ChunkHoldsSink /\ pc = "write_all") =>
          (wvia = "cw" \/ InBegin \/ InFinish)
    /\ (pc = "write_all" /\ wvia = "cw") => cw.state = "open"

OneChunkAtATimeWitness ==
    /\ pc = "begin"
    /\ stage = "Trailer"
    /\ cw.state = "finished"
    /\ args.typ = IEND
    /\ Len(zout) >= 1

\* The offsets (1-based) of the length field of the chunk.
LenFieldAt == (cw.start + 1)..(cw.start + 4)

\* But for the length field, the sink still holds in front of offset n what
\* it held when finish was called.
SameButLenField(n) ==
    \A i \in 1..n : i \notin LenFieldAt => (i <= Len(data) /\ data[i] = snap[i])

(* C12: finish on a deferred-length chunk changes, of the bytes in the     *)
(* sink in front of the cursor, only the four bytes of the length field    *)
(* (type and payload stay as they were); after the rewrite the cursor is   *)
(* back where it was when finish was called; the four checksum bytes go    *)
(* right behind the last payload byte, and the cursor ends right behind    *)
(* them, at start + 8 + payload length + 4.                                *)
FinishFrameEffect ==
    /\ (pc = "finish_crc" /\ ~cw.len.some) =>
          /\ pos = cur
          /\ data = [snap EXCEPT ![cw.start + 1] = data[cw.start + 1],
                                 ![cw.start + 2] = data[cw.start + 2],
                                 ![cw.start + 3] = data[cw.start + 3],
                                 ![cw.start + 4] = data[cw.start + 4]]
    /\ (Finished /\ ~cw.len.some) =>
          /\ SameButLenField(cur)
          /\ Field(cw.start + 4, 4) = SubSeq(snap, cw.start + 5, cw.start + 8)
          /\ Field(cw.start + 8, Len(payload)) = payload
          /\ cur = cw.start + 8 + Len(payload)
          /\ Field(cur, 4) = FinishCrcField(cw.crc)
          /\ pos = cw.start + 8 + Len(payload) + 4

FinishFrameEffectWitness ==
    /\ pc = "closed"
    /\ ~cw.len.some
    /\ cw.start = 1
    /\ Len(data) = cw.start + 12 + Len(payload)
    /\ Len(payload) >= 1
    /\ Field(cw.start, 4) # SubSeq(snap, cw.start + 1, cw.start + 4)

(* C13: a finished chunk whose payload is the concatenation of the bytes   *)
(* its caller passed to write and write_all holds the big-endian payload   *)
(* length, the type, the payload and the CRC-32 of type and payload: bytes *)
(* fixed by type and payload alone, the same for every split of the        *)
(* payload over the calls.                                                 *)
SplitIndependent ==
    (pc = "closed" /\ supplied = payload) =>
        Field(cw.start, 12 + Len(payload)) =
            to_be_bytes(Len(payload)) \o args.typ \o payload
                \o Crc32(args.typ \o payload)

\* The image-data chunk is open, the run going on.
IdatOpen == stage = "ImageData" /\ cw.state = "open" /\ pc # "failed"

\* The bytes of the block being written that the sink has not taken yet.
Pending == IF pc = "write_all" /\ wvia = "cw" THEN wa ELSE <<>>

\* finish has been called on the image-data chunk.
IdatFinishCalled ==
    \/ stage = "ImageData" /\ InFinish
    \/ stage \in {"Trailer", "Done"}

\* What holds of the image-data stage in every state.
IdatInOrder ==
    /\ IdatOpen => payload \o Pending = zout
    /\ (stage = "ImageData" /\ InFinish) =>
          /\ zeof
          /\ Exhausted(zr)
          /\ zbuf = <<>>
          /\ Len(fed) = zr.count
          /\ payload = zout
    /\ stage \in {"Trailer", "Done"} =>
          /\ zeof
          /\ from_be_bytes(Field(33, 4)) = Len(zout)
          /\ Field(41, Len(zout)) = zout

(* C14: finish is called on the image-data chunk only when the ZeroReader  *)
(* is exhausted, all its bytes are consumed and the encoder has returned 0 *)
(* at the end of its input; as long as the chunk is open its payload, with *)
(* the rest of the block being written, is what the encoder has emitted,   *)
(* block after block in the order emitted; and once finish is called the   *)
(* encoder emits nothing more and the chunk holds what it emitted.         *)
IdatFinishedAfterDrain ==
    [][/\ IdatInOrder'
       /\ IdatFinishCalled => (zout' = zout /\ fed' = fed)]_vars

IdatFinishedAfterDrainWitness ==
    /\ pc = "finish"
    /\ stage = "ImageData"
    /\ zr.count = 4
    /\ Len(zout) >= 2
    /\ block # zout
    /\ shorts > 0

\* run has returned, with Ok or with an error.
Stopped == pc \in {"done", "failed"}

LengthFieldExact ==
    wide.pc = "closed" => as_usize(wide.field) = wide.count

\* The uncompressed bytes the header stands for: its height times the row
\* length of its width.
HeaderBytes ==
    Mul64(as_usize(SubSeq(wide.hdr, 5, 8)),
          raw_row_length_usize(SubSeq(wide.hdr, 1, 4), Grayscale, One))

(* C17: for every width and height render takes, also beyond 2^32 - 1 and  *)
(* with a product beyond the machine word, the number of bytes fed to the  *)
(* encoder is the height in the header times one plus the packed row bytes *)
(* of the width in the header.                                             *)
HeaderMatchesData ==
    (wide.pc \in {"open", "closed"} /\ wide.hdr # <<>>) =>
        wide.fed = HeaderBytes

\* The image-data stage is complete: its chunk is finished.
ImageDataComplete == stage \in {"Trailer", "Done"}

(* C18: every count render reports to the progress bar in the image-data   *)
(* stage raises the sum of the counts reported, and when the stage is      *)
(* complete that sum is the total the bar was created with.                *)
ProgressReachesTotal ==
    [][/\ pb'.reported # pb.reported => pb'.reported > pb.reported
       /\ ImageDataComplete' => pb'.reported = pb'.total]_vars

====
